---- MODULE Spec2Model ----
(***************************************************************************)
(* Model of the portal renderer of the `render` crate: the interval        *)
(* algebra and the per-column coverage of d3/algo.rs, the sector           *)
(* traversal and wall painters of d3.rs, the sector traversal of the 2D    *)
(* overlay of d2.rs, update_player and the input controller of             *)
(* controller.rs, and the wall loop iterator of the `map` crate            *)
(* (sector.rs).                                                            *)
(***************************************************************************)
EXTENDS Integers, Sequences, FiniteSets, TLC

(***************************************************************************)
(* Bounds of the model.  The frame is scaled down from 320 x 200.          *)
(***************************************************************************)
WIDTH == 3
HEIGHT == 4
\* interval endpoints handed to the interval algebra range over MinCoord..MaxCoord
MaxCoord == 4

MinCoord == 0 - 1

Columns == 0 .. (WIDTH - 1)
Rows == 0 .. (HEIGHT - 1)

VARIABLES
    \* ---- interval algebra (d3/algo.rs): arguments and results of one call
    argU, argV, resUV, resVU,
    \* ---- Coverage object driven through its public operations
    cov,          \* the Coverage value: [columns, non_empty]
    covOp,        \* the last operation applied: [name, column, interval]
    covEmptied,   \* columns intersected with None since new()/reset()
    covOnlyNone,  \* only intersect_column(_, None) was applied since new()/reset()
    covPrevOp,    \* the name of the operation before the last one
    covResetFull, \* the last reset() was applied to a full Coverage
    \* ---- the Map handed to the renderer (read-only during render)
    map,            \* [player_sector, walls]: walls carry next_sector and their projection
    \* ---- d3::Renderer and the caller's Frame
    pixel_coverage, \* Renderer.pixel_coverage
    queue,          \* Renderer.queue: sequence of <<sector_id, interval>>, back = last
    frame,          \* the framebuffer: frame[y][x]
    \* ---- position of the render call
    pc,             \* "start", "idle", "loop" (the while test), "walls" (the for loop),
                    \* "done", "panic", "cut"; "parked" where render is not modelled
    node,           \* the node popped last: <<sector_id, interval>>
    sorted,         \* the projected walls of the popped sector, sorted by closeness
    wi,             \* index in sorted of the next wall of the for loop
    failed,         \* the panic that ended the call, "none" if none
    \* ---- observations of the current render call
    lastStep,       \* the kind of the last step taken
    count,          \* count[x][y]: writes to pixel (x, y), counted up to 2
    painters,       \* painters[x][y]: column steps that wrote pixel (x, y), counted up to 2
    colSteps,       \* colSteps[x]: column steps that wrote some pixel of column x, up to 2
    offcov,         \* some write hit a row outside its column's remaining coverage
    \* ---- the render calls made on this Renderer
    calls,          \* the number of the current render call: 1 or 2
    earlier,        \* what call 1 left: <<>> during call 1, then <<[frame, queue]>>
    \* ---- controller.rs: the Map update_player works on
    player,         \* map.player: [pos_x, pos_y, pos_z, angle, sector]
    world,          \* map.sectors: [sectors, walls], walls carry x, y, point2, next_sector
    step,           \* the last update_player call: <<>> before the first call, then
                    \* <<[target, still, from, d]>>: (tx, ty), whether forwards =
                    \* sideways = 0, the sector before the call and (tx - px, ty - py)
    moveCalls,      \* update_player calls made
    moveFailed,     \* the panic that ended the last call, "none" if none
    \* ---- map/src/sector.rs: a Sectors value and one SectorWalls iterator on it
    table,          \* the Sectors value: [sectors, walls], walls carry point2
    iter,           \* <<>> before Sectors::get, then <<[len, index, first, curr]>>
    yielded,        \* the items next() has returned, in order: [id, left, right]
    ended,          \* next() has returned None
    \* ---- controller.rs: one call of intrsect_movement_with_wall on machine words
    crossArgs,      \* [left, right, p, t]: the walls and the points handed to the test
    crossed,        \* [overflow, outcome]: outcome is "unset" before the call
    \* ---- d2::Renderer: one render call of the 2D overlay
    d2map,          \* the Map: [player_sector, sectors, walls], walls carry next_sector
    visited_depth,  \* Renderer.visited_depth: a function from sector ids to depths
    d2stack,        \* the render_sector calls in progress, innermost last:
                    \* [sector, walls, i]: its wall iterator's items, the next one
    d2drawn,        \* d2drawn[w]: render_wall calls made for wall w, counted up to 2
    d2pc,           \* "idle", "run", "done", "panic"; "parked" where not modelled
    \* ---- controller.rs: one InputController and its update_opts calls
    controller,     \* [max_speed, opts]: opts is [forwards, sideways, rotate]
    idle,           \* update_opts calls since the last one with a movement or look
                    \* flag held, counted up to IdleCap
    idleFrom        \* the opts left by the last call with such a flag held

algoVars == <<argU, argV, resUV, resVU>>
covVars == <<cov, covOp, covEmptied, covOnlyNone, covPrevOp, covResetFull>>
callVars == <<calls, earlier>>
renderVars == <<map, pixel_coverage, queue, frame, pc, node, sorted, wi, failed,
                lastStep, count, painters, colSteps, offcov, callVars>>
moveVars == <<player, world, step, moveCalls, moveFailed>>
iterVars == <<table, iter, yielded, ended>>
crossVars == <<crossArgs, crossed>>
d2Vars == <<d2map, visited_depth, d2stack, d2drawn, d2pc>>
ctlVars == <<controller, idle, idleFrom>>
vars == <<algoVars, covVars, renderVars, moveVars, iterVars, crossVars, d2Vars, ctlVars>>

(***************************************************************************)
(* Interval = Option<[i32; 2]>: None is <<>>, Some([l, r]) is <<l, r>>.    *)
(***************************************************************************)
None == <<>>
Some(l, r) == <<l, r>>
is_none(u) == u = None
is_some(u) == u # None

Min(a, b) == IF a <= b THEN a ELSE b
Max(a, b) == IF a >= b THEN a ELSE b

\* the integers an interval contains: [l, r) is half-open
RowsOf(u) == IF is_none(u) THEN {} ELSE u[1] .. (u[2] - 1)

\* mutant: the emptiness test compares the two right ends
intersect_ordered_ends(u, v) ==
    IF u[2] <= v[2] THEN None ELSE Some(v[1], Min(v[2], u[2]))

\* the body of intersect after the swap of line 15-17, i.e. with u[0] <= v[0]
intersect_ordered(u, v) ==
    IF u[2] <= v[1] THEN None ELSE Some(v[1], Min(v[2], u[2]))

\* algo.rs: intersect
intersect(u, v) ==
    IF is_none(u) \/ is_none(v) THEN None
    ELSE IF u[1] > v[1] THEN intersect_ordered(v, u)
    ELSE intersect_ordered(u, v)

\* algo.rs: contains
contains(u, point) ==
    IF is_some(u) THEN point >= u[1] /\ point < u[2] ELSE FALSE

(***************************************************************************)
(* Coverage (d3/algo.rs)                                                   *)
(***************************************************************************)
\* Coverage::new
new == [columns |-> [x \in Columns |-> Some(0, HEIGHT)], non_empty |-> WIDTH]

\* Coverage::is_full
is_full(c) == c.non_empty = 0

\* Coverage::get_column
get_column(c, column) == IF is_full(c) THEN None ELSE c.columns[column]

\* mutant: the counter is decremented whenever the column ends up empty
intersect_column_nocheck(c, column, interval) ==
    IF is_full(c) THEN c
    ELSE LET u == c.columns[column]
             n == intersect(u, interval)
         IN  [columns |-> [c.columns EXCEPT ![column] = n],
              non_empty |-> IF is_none(n) THEN c.non_empty - 1 ELSE c.non_empty]

\* mutant: the interval is stored without intersecting it with the column
intersect_column_assign(c, column, interval) ==
    IF is_full(c) THEN c
    ELSE LET u == c.columns[column]
         IN  [columns |-> [c.columns EXCEPT ![column] = interval],
              non_empty |-> IF is_some(u) /\ is_none(interval)
                            THEN c.non_empty - 1 ELSE c.non_empty]

\* Coverage::intersect_column
intersect_column(c, column, interval) ==
    IF is_full(c) THEN c
    ELSE LET u == c.columns[column]
             n == intersect(u, interval)
         IN  [columns |-> [c.columns EXCEPT ![column] = n],
              non_empty |-> IF is_some(u) /\ is_none(n)
                            THEN c.non_empty - 1 ELSE c.non_empty]

\* mutant: the columns are restored but the counter is forgotten
reset_columns_only(c) ==
    [columns |-> [x \in Columns |-> Some(0, HEIGHT)], non_empty |-> c.non_empty]

\* Coverage::reset
reset(c) ==
    [columns |-> [x \in Columns |-> Some(0, HEIGHT)], non_empty |-> WIDTH]

\* Coverage::set_full_coverage
set_full_coverage(c) == [c EXCEPT !.non_empty = 0]

(***************************************************************************)
(* The Map (map/src/sector.rs).  The sector and wall tables are fixed: two *)
(* sectors, sector 0 with the wall loop 0 -> 1 -> 0 and sector 1 with the  *)
(* one-wall loop 2 -> 2.  What varies is where each wall leads and what    *)
(* its projection for the current player is.                               *)
(***************************************************************************)
\* Sector.wallptr and Sector.wallnum of each sector
SectorTable == <<[wallptr |-> 0, wallnum |-> 2], [wallptr |-> 2, wallnum |-> 1]>>
\* Wall.point2 of each wall
Point2Table == <<1, 0, 2>>

NumSectors == Len(SectorTable)
SectorIds == 0 .. (NumSectors - 1)
WallIds == 0 .. (Len(Point2Table) - 1)

\* SectorWalls::next, repeated until it returns None: the (curr, left, right) it yields
RECURSIVE SectorWalls_next(_, _, _, _)
SectorWalls_next(m, curr, first, fuel) ==
    IF fuel = 0 THEN <<>>
    ELSE LET point2 == m.walls[curr].point2
         IN  <<[id |-> curr, left |-> curr, right |-> point2]>>
             \o (IF point2 = first THEN <<>> ELSE SectorWalls_next(m, point2, first, fuel - 1))

\* Sectors::sector_walls
sector_walls(m, sector) ==
    SectorWalls_next(m, m.sectors[sector + 1].wallptr, m.sectors[sector + 1].wallptr,
                     Cardinality(DOMAIN m.walls))

\* Sectors::get: <<>> is None, <<walls>> is Some((sector, walls))
sectors_get(m, sector) ==
    IF sector < 0 THEN <<>>
    ELSE IF sector >= Len(m.sectors) THEN <<>>
    ELSE <<sector_walls(m, sector)>>

\* Sectors::sector_walls as the iterator it constructs
SectorWalls(m, sector) ==
    [len |-> m.sectors[sector + 1].wallnum,
     index |-> 0,
     first |-> m.sectors[sector + 1].wallptr,
     curr |-> <<m.sectors[sector + 1].wallptr>>]

\* SectorWalls::next, one call: the iterator after the call and the item it
\* returns, <<>> for None
next(m, it) ==
    IF it.curr = <<>> THEN [it |-> it, item |-> <<>>]
    ELSE LET curr == it.curr[1]
             point2 == m.walls[curr].point2
         IN  [it |-> [it EXCEPT !.index = @ + 1,
                                !.curr = IF point2 = it.first THEN <<>> ELSE <<point2>>],
              item |-> <<[id |-> curr, left |-> curr, right |-> point2]>>]

\* SectorWalls::size_hint: len - index on usize.  When index > len the
\* subtraction panics (wraps = FALSE, overflow checks on) or wraps around to
\* 2^64 - (index - len), written [below_2_64 |-> index - len] (wraps = TRUE).
size_hint(it, wraps) ==
    IF it.index <= it.len THEN it.len - it.index
    ELSE IF wraps THEN [below_2_64 |-> it.index - it.len]
    ELSE "panic"

\* the iterator variables while no SectorWalls is modelled
IterParked ==
    /\ table = [sectors |-> SectorTable, walls |-> [w \in WallIds |-> [point2 |-> Point2Table[w + 1]]]]
    /\ iter = <<>>
    /\ yielded = <<>>
    /\ ended = FALSE

(***************************************************************************)
(* d3.rs: colours, projected geometry, column iterator                     *)
(***************************************************************************)
BLACK_COLOR == 0
WALL_COLOR == 8947848
CEILING_COLOR == 4473924
FLOOR_COLOR == 2237183
PORTAL_FRAME_COLOR == 11154346

\* Geometry<Point, i32>: points are <<x, y>>, extra is the closeness key
Geometry(xl, xr, tl, tr, bl, br, itl, itr, ibl, ibr, extra) ==
    [top_left |-> <<xl, tl>>, top_right |-> <<xr, tr>>,
     bottom_left |-> <<xl, bl>>, bottom_right |-> <<xr, br>>,
     in_top_left |-> <<xl, itl>>, in_top_right |-> <<xr, itr>>,
     in_bottom_left |-> <<xl, ibl>>, in_bottom_right |-> <<xr, ibr>>,
     extra |-> extra]

\* Renderer::project_wall: the float pipeline is not modelled; its result for
\* each wall and the current player is part of the map value: <<>> is None
project_wall(m, left) == m.walls[left].proj

\* algo::interval, the constructor used by d3.rs
interval(l, r) == Some(l, r)

\* i32 division truncates toward zero
TruncDiv(a, b) ==
    LET abs(v) == IF v < 0 THEN 0 - v ELSE v
        q == abs(a) \div abs(b)
    IN  IF (a < 0) = (b < 0) THEN q ELSE 0 - q

clamp(v, hi) == Min(Max(v, 0), hi)

RECURSIVE FilterRange(_, _, _)
FilterRange(x, x1, u) ==
    IF x >= x1 THEN <<>>
    ELSE (IF contains(u, x) THEN <<x>> ELSE <<>>) \o FilterRange(x + 1, x1, u)

\* the closure of lines_iter's map: one item (i, wall, sector) for column x;
\* div records the division by d = 0 the closure would perform
lines_item(geo, x0, x) ==
    LET d == geo.top_right[1] - geo.top_left[1]
        n == x - geo.top_left[1]
        h == HEIGHT
        lerp(l, r) == IF d = 0 THEN 0 ELSE clamp(l[2] + TruncDiv(n * (r[2] - l[2]), d), h)
        wall_y0 == lerp(geo.top_left, geo.top_right)
        wall_y1 == lerp(geo.bottom_left, geo.bottom_right)
        sector_y0 == lerp(geo.in_top_left, geo.in_top_right)
        sector_y1 == lerp(geo.in_bottom_left, geo.in_bottom_right)
    IN  [i |-> x - x0,
         div |-> d = 0,
         wall |-> <<<<x, wall_y0>>, <<x, wall_y1>>>>,
         sector |-> <<<<x, Max(sector_y0, wall_y0)>>, <<x, Min(sector_y1, wall_y1)>>>>]

\* mutant: the slope is computed before the columns are walked, so d = 0
\* divides even when no column is yielded
lines_iter_eager(geo, u) ==
    LET w == WIDTH
        x0 == clamp(geo.top_left[1], w)
        x1 == clamp(geo.top_right[1], w)
        xs == FilterRange(x0, x1, u)
    IN  IF geo.top_right[1] - geo.top_left[1] = 0
        THEN <<lines_item(geo, x0, x0)>>
        ELSE [k \in 1 .. Len(xs) |-> lines_item(geo, x0, xs[k])]

\* lines_iter: the items for the columns of [x0, x1) inside the interval
lines_iter(geo, u) ==
    LET w == WIDTH
        x0 == clamp(geo.top_left[1], w)
        x1 == clamp(geo.top_right[1], w)
        xs == FilterRange(x0, x1, u)
    IN  [k \in 1 .. Len(xs) |-> lines_item(geo, x0, xs[k])]

(***************************************************************************)
(* d3.rs: painters.  P is what a painter reads and writes: cov and frame   *)
(* are the renderer's coverage and the framebuffer, fail the panic raised, *)
(* the other fields observe the writes.                                    *)
(***************************************************************************)
Bump(c) == IF c >= 2 THEN 2 ELSE c + 1

\* F applied to the value of e: e is evaluated once, before F
Strict(e, F(_)) == CHOOSE r \in {F(v) : v \in {e}} : TRUE

Panic(P, what) == [P EXCEPT !.fail = what]

\* the pixels [ys] of column x0 receive colour: frame and observations
WritePixels(P0, x0, ys, colour, current) ==
    Strict(P0, LAMBDA P :
        [P EXCEPT !.frame = [y \in Rows |-> [x \in Columns |->
                                IF x = x0 /\ y \in ys THEN colour ELSE P.frame[y][x]]],
                  !.count = [x \in Columns |-> [y \in Rows |->
                                IF x = x0 /\ y \in ys THEN Bump(P.count[x][y]) ELSE P.count[x][y]]],
                  !.stepRows = @ \cup ys,
                  !.offcov = @ \/ ~(ys \subseteq RowsOf(current))])

\* mutant: the segment is written as given, without the column's coverage
render_line_unclipped(P0, segment, colour) ==
    Strict(P0, LAMBDA P :
        LET x0 == segment[1][1]
            y0 == segment[1][2]
            x1 == segment[2][1]
            y1 == segment[2][2]
        IN  IF P.fail # "none" THEN P
            ELSE IF x0 # x1 THEN Panic(P, "assert")
            ELSE IF ~is_full(P.cov) /\ x0 \notin Columns THEN Panic(P, "index")
            ELSE LET ys == y0 .. (y1 - 1)
                 IN  IF ys = {} THEN P
                     ELSE IF ~(ys \subseteq Rows) \/ x0 \notin Columns THEN Panic(P, "index")
                     ELSE WritePixels(P, x0, ys, colour, get_column(P.cov, x0)))

\* Renderer::render_line
render_line(P0, segment, colour) ==
    Strict(P0, LAMBDA P :
        LET x0 == segment[1][1]
            y0 == segment[1][2]
            x1 == segment[2][1]
            y1 == segment[2][2]
        IN  IF P.fail # "none" THEN P
            ELSE IF x0 # x1 THEN Panic(P, "assert")
            ELSE IF ~is_full(P.cov) /\ x0 \notin Columns THEN Panic(P, "index")
            ELSE LET current_coverage == get_column(P.cov, x0)
                     ys == RowsOf(intersect(current_coverage, interval(y0, y1)))
                 IN  IF ys = {} THEN P
                     ELSE IF ~(ys \subseteq Rows) \/ x0 \notin Columns THEN Panic(P, "index")
                     ELSE WritePixels(P, x0, ys, colour, current_coverage))

\* consecutive render_line calls
RECURSIVE render_lines(_, _)
render_lines(P0, lines) ==
    Strict(P0, LAMBDA P :
        IF lines = <<>> THEN P
        ELSE render_lines(render_line(P, lines[1].segment, lines[1].colour), Tail(lines)))

Line(segment, colour) == [segment |-> segment, colour |-> colour]

\* self.pixel_coverage.intersect(column, interval) as called by the painters
coverage_intersect(P0, column, u) ==
    Strict(P0, LAMBDA P :
        IF P.fail # "none" THEN P
        ELSE IF ~is_full(P.cov) /\ column \notin Columns THEN Panic(P, "index")
        ELSE [P EXCEPT !.cov = intersect_column(P.cov, column, u)])

\* the end of one iteration of a painter's for loop: the observations of the column
EndColumn(P0, x) ==
    Strict(P0, LAMBDA P :
        IF P.fail # "none" \/ P.stepRows = {} THEN [P EXCEPT !.stepRows = {}]
        ELSE [P EXCEPT !.painters = [c \in Columns |-> [y \in Rows |->
                            IF c = x /\ y \in P.stepRows THEN Bump(P.painters[c][y])
                            ELSE P.painters[c][y]]],
                       !.colSteps = [c \in Columns |->
                            IF c = x THEN Bump(P.colSteps[c]) ELSE P.colSteps[c]],
                       !.stepRows = {}])

\* the body of render_solid_wall's for loop
solid_column(P0, item) ==
    Strict(P0, LAMBDA P :
        LET i == item.i
            wall == item.wall
            lines == <<
                Line(wall, IF i = 0 THEN BLACK_COLOR ELSE WALL_COLOR),
                Line(<<<<wall[2][1], wall[2][2] - 1>>, wall[2]>>, BLACK_COLOR),
                Line(<<wall[1], <<wall[1][1], wall[1][2] + 1>>>>, BLACK_COLOR),
                Line(<<<<wall[1][1], 0>>, wall[1]>>, CEILING_COLOR),
                Line(<<wall[2], <<wall[2][1], HEIGHT>>>>, FLOOR_COLOR) >>
        IN  IF P.fail # "none" THEN P
            ELSE IF item.div THEN Panic(P, "div")
            ELSE EndColumn(coverage_intersect(render_lines(P, lines), wall[1][1], None),
                           wall[1][1]))

RECURSIVE solid_columns(_, _)
solid_columns(P0, items) ==
    Strict(P0, LAMBDA P :
        IF items = <<>> THEN P
        ELSE solid_columns(solid_column(P, items[1]), Tail(items)))

\* Renderer::render_solid_wall
render_solid_wall(P, geometry, u) == solid_columns(P, lines_iter(geometry, u))

\* mutant: the coverage keeps the rows of the portal's two border lines
portal_column_keeps_borders(P0, item, has_top_frame, has_bottom_frame) ==
    Strict(P0, LAMBDA P :
        LET i == item.i
            wall == item.wall
            portal == item.sector
            top == IF has_top_frame
                   THEN << Line(<<wall[1], portal[1]>>, IF i = 0 THEN BLACK_COLOR ELSE WALL_COLOR),
                           Line(<<wall[1], <<wall[1][1], wall[1][2] + 1>>>>, BLACK_COLOR) >>
                   ELSE <<>>
            bottom == IF has_bottom_frame
                      THEN << Line(<<portal[2], wall[2]>>,
                                   IF i = 0 THEN BLACK_COLOR ELSE PORTAL_FRAME_COLOR),
                              Line(<<<<wall[2][1], wall[2][2] - 1>>, wall[2]>>, BLACK_COLOR) >>
                      ELSE <<>>
            lines == << Line(<<<<portal[2][1], portal[2][2] - 1>>, portal[2]>>, BLACK_COLOR),
                        Line(<<portal[1], <<portal[1][1], portal[1][2] + 1>>>>, BLACK_COLOR) >>
                     \o top \o bottom
                     \o << Line(<<<<wall[1][1], 0>>, wall[1]>>, CEILING_COLOR),
                           Line(<<wall[2], <<wall[2][1], HEIGHT>>>>, FLOOR_COLOR) >>
        IN  IF P.fail # "none" THEN P
            ELSE IF item.div THEN Panic(P, "div")
            ELSE EndColumn(coverage_intersect(render_lines(P, lines), wall[1][1],
                                              interval(portal[1][2], portal[2][2])),
                           wall[1][1]))

\* the body of render_portal_wall's for loop
portal_column(P0, item, has_top_frame, has_bottom_frame) ==
    Strict(P0, LAMBDA P :
        LET i == item.i
            wall == item.wall
            portal == item.sector
            top == IF has_top_frame
                   THEN << Line(<<wall[1], portal[1]>>, IF i = 0 THEN BLACK_COLOR ELSE WALL_COLOR),
                           Line(<<wall[1], <<wall[1][1], wall[1][2] + 1>>>>, BLACK_COLOR) >>
                   ELSE <<>>
            bottom == IF has_bottom_frame
                      THEN << Line(<<portal[2], wall[2]>>,
                                   IF i = 0 THEN BLACK_COLOR ELSE PORTAL_FRAME_COLOR),
                              Line(<<<<wall[2][1], wall[2][2] - 1>>, wall[2]>>, BLACK_COLOR) >>
                      ELSE <<>>
            lines == << Line(<<<<portal[2][1], portal[2][2] - 1>>, portal[2]>>, BLACK_COLOR),
                        Line(<<portal[1], <<portal[1][1], portal[1][2] + 1>>>>, BLACK_COLOR) >>
                     \o top \o bottom
                     \o << Line(<<<<wall[1][1], 0>>, wall[1]>>, CEILING_COLOR),
                           Line(<<wall[2], <<wall[2][1], HEIGHT>>>>, FLOOR_COLOR) >>
        IN  IF P.fail # "none" THEN P
            ELSE IF item.div THEN Panic(P, "div")
            ELSE EndColumn(coverage_intersect(render_lines(P, lines), wall[1][1],
                                              interval(portal[1][2] + 1, portal[2][2] - 1)),
                           wall[1][1]))

RECURSIVE portal_columns(_, _, _, _)
portal_columns(P0, items, has_top_frame, has_bottom_frame) ==
    Strict(P0, LAMBDA P :
        IF items = <<>> THEN P
        ELSE portal_columns(portal_column(P, items[1], has_top_frame, has_bottom_frame),
                            Tail(items), has_top_frame, has_bottom_frame))

\* mutant: the right end of portal_interval is the last column, not the one after it
RECURSIVE portal_extent_last_column(_, _)
portal_extent_last_column(acc, items) ==
    IF items = <<>> THEN acc
    ELSE portal_extent_last_column(<<Min(acc[1], items[1].wall[1][1]), Max(acc[2], items[1].wall[1][1])>>,
                                   Tail(items))

\* the fold of portal_interval over the columns yielded
RECURSIVE portal_extent(_, _)
portal_extent(acc, items) ==
    IF items = <<>> THEN acc
    ELSE portal_extent(<<Min(acc[1], items[1].wall[1][1]), Max(acc[2], items[1].wall[1][1] + 1)>>,
                       Tail(items))

\* Renderer::render_portal_wall: the painter's result and the interval returned
render_portal_wall(P, geometry, u) ==
    LET has_top_frame == geometry.top_left[2] < geometry.in_top_left[2]
        has_bottom_frame == geometry.bottom_left[2] > geometry.in_bottom_left[2]
        items == lines_iter(geometry, u)
        drawn_pixels == items # <<>>
        portal_interval == portal_extent(<<WIDTH, 0>>, items)
    IN  [P |-> portal_columns(P, items, has_top_frame, has_bottom_frame),
         interval |-> IF drawn_pixels THEN interval(portal_interval[1], portal_interval[2])
                      ELSE None]

\* walls.sort_by_cached_key(|(_, p)| p.extra): a stable sort
RECURSIVE sort_by_cached_key(_)
sort_by_cached_key(walls) ==
    IF walls = <<>> THEN <<>>
    ELSE LET init == sort_by_cached_key(SubSeq(walls, 1, Len(walls) - 1))
             e == walls[Len(walls)]
             k == Cardinality({j \in 1 .. Len(init) : init[j].points.extra <= e.points.extra})
         IN  SubSeq(init, 1, k) \o <<e>> \o SubSeq(init, k + 1, Len(init))

\* the filter_map of render: the walls project_wall keeps, with their projection
RECURSIVE filter_map_projected(_, _)
filter_map_projected(m, walls) ==
    IF walls = <<>> THEN <<>>
    ELSE (IF project_wall(m, walls[1].left) = <<>> THEN <<>>
          ELSE <<[wall |-> walls[1].left, points |-> project_wall(m, walls[1].left)[1]]>>)
         \o filter_map_projected(m, Tail(walls))

(***************************************************************************)
(* controller.rs: update_player.  A player is [pos_x, pos_y, pos_z, angle, *)
(* sector]; opts is [forwards, sideways, rotate].                          *)
(***************************************************************************)
\* Angle::to_radians: RANGE = 0x7ff
RANGE == 2047

\* the angle, in steps of 2 pi / RANGE, between the direction of the stored
\* angle and the direction of angle 0: (self.0 & RANGE) / RANGE of a turn
turn(angle) ==
    LET masked == angle % (RANGE + 1)
    IN  IF masked <= RANGE \div 2 THEN masked ELSE masked - RANGE

\* sin and cos of to_radians(), in units of 10^-8, for directions a few steps
\* from angle 0: to_radians() is k * (2 pi / 2047) - pi / 2 with k = turn(angle),
\* so sin = -cos(k * 0.00306946) and cos = sin(k * 0.00306946)
sin(angle) == 0 - (10^8 - 471 * turn(angle) * turn(angle))
cos(angle) == 306946 * turn(angle)

\* (value * velocity) as i32: the cast truncates toward zero
as_i32(scaled) == TruncDiv(scaled, 10^8)

abs(v) == IF v < 0 THEN 0 - v ELSE v
signum(v) == IF v > 0 THEN 1 ELSE IF v < 0 THEN 0 - 1 ELSE 0

\* intrsect_movement_with_wall: left and right are walls, p and t are <<x, y>>
intrsect_movement_with_wall(left, right, p, t) ==
    LET px == p[1]
        py == p[2]
        tx == t[1]
        ty == t[2]
        lx == left.x
        ly == left.y
        rx == right.x
        ry == right.y
        num0 == (px - lx) * (ty - py) - (tx - px) * (py - ly)
        num1 == (rx - lx) * (py - ly) - (px - lx) * (ry - ly)
        den == (rx - lx) * (ty - py) - (tx - px) * (ry - ly)
    IN  /\ abs(num0) <= abs(den)
        /\ abs(num1) <= abs(den)
        /\ signum(num0) = signum(den)
        /\ signum(num1) = signum(den)

\* mutant: the solid walls are not filtered out of the loop
RECURSIVE first_crossing_any_wall(_, _, _, _, _)
first_crossing_any_wall(m, walls, p, t, sector) ==
    IF walls = <<>> THEN sector
    ELSE LET left == m.walls[walls[1].left]
             right == m.walls[walls[1].right]
         IN  IF intrsect_movement_with_wall(left, right, p, t) THEN left.next_sector
             ELSE first_crossing_any_wall(m, Tail(walls), p, t, sector)

\* the for loop of update_player over the portal walls: the sector the player
\* ends in, sector itself when no wall is hit
RECURSIVE first_crossing(_, _, _, _, _)
first_crossing(m, walls, p, t, sector) ==
    IF walls = <<>> THEN sector
    ELSE LET left == m.walls[walls[1].left]
             right == m.walls[walls[1].right]
         IN  IF left.next_sector = 0 - 1 THEN first_crossing(m, Tail(walls), p, t, sector)
             ELSE IF intrsect_movement_with_wall(left, right, p, t) THEN left.next_sector
             ELSE first_crossing(m, Tail(walls), p, t, sector)

\* mutant: the displacement is added only when no portal was crossed
update_player_stay_on_crossing(pl, m, opts, wraps) ==
    LET sum == pl.angle + opts.rotate
        angle == IF sum > 2^15 - 1 THEN sum - 2^16 ELSE IF sum < 0 - 2^15 THEN sum + 2^16 ELSE sum
        x == (IF opts.forwards # 0 THEN as_i32((0 - sin(angle)) * opts.forwards) ELSE 0)
             - (IF opts.sideways # 0 THEN as_i32(cos(angle) * opts.sideways) ELSE 0)
        y == (IF opts.forwards # 0 THEN as_i32(cos(angle) * opts.forwards) ELSE 0)
             - (IF opts.sideways # 0 THEN as_i32(sin(angle) * opts.sideways) ELSE 0)
        got == sectors_get(m, pl.sector)
        p == <<pl.pos_x, pl.pos_y>>
        t == <<pl.pos_x + x, pl.pos_y + y>>
        turned == [pl EXCEPT !.angle = angle]
    IN  IF angle # sum /\ ~wraps THEN [player |-> pl, failed |-> "overflow", target |-> p]
        ELSE IF got = <<>> THEN [player |-> turned, failed |-> "unwrap", target |-> t]
        ELSE LET sector == first_crossing(m, got[1], p, t, pl.sector)
             IN  [player |-> [turned EXCEPT !.sector = sector,
                                            !.pos_x = IF sector = pl.sector THEN @ + x ELSE @,
                                            !.pos_y = IF sector = pl.sector THEN @ + y ELSE @],
                  failed |-> "none", target |-> t]

\* update_player.  wraps: the build wraps on i16 overflow (release) instead of
\* panicking (debug).  The result is the player, the panic raised and (tx, ty).
update_player(pl, m, opts, wraps) ==
    LET sum == pl.angle + opts.rotate
        angle == IF sum > 2^15 - 1 THEN sum - 2^16 ELSE IF sum < 0 - 2^15 THEN sum + 2^16 ELSE sum
        x == (IF opts.forwards # 0 THEN as_i32((0 - sin(angle)) * opts.forwards) ELSE 0)
             - (IF opts.sideways # 0 THEN as_i32(cos(angle) * opts.sideways) ELSE 0)
        y == (IF opts.forwards # 0 THEN as_i32(cos(angle) * opts.forwards) ELSE 0)
             - (IF opts.sideways # 0 THEN as_i32(sin(angle) * opts.sideways) ELSE 0)
        got == sectors_get(m, pl.sector)
        p == <<pl.pos_x, pl.pos_y>>
        t == <<pl.pos_x + x, pl.pos_y + y>>
        turned == [pl EXCEPT !.angle = angle]
    IN  IF angle # sum /\ ~wraps THEN [player |-> pl, failed |-> "overflow", target |-> p]
        ELSE IF got = <<>> THEN [player |-> turned, failed |-> "unwrap", target |-> t]
        ELSE [player |-> [turned EXCEPT !.sector = first_crossing(m, got[1], p, t, pl.sector),
                                        !.pos_x = @ + x,
                                        !.pos_y = @ + y],
              failed |-> "none", target |-> t]

\* the Map of the movement model: three square rooms of side 2.  Sector 0 is
\* [0,2] x [0,2] with a portal to sector 1 on x = 2 (wall 1) and a portal to
\* sector 2 on y = 2 (wall 2); sector 1 is [2,4] x [0,2]; sector 2 is [0,2] x [2,4].
MoveWall(x, y, point2, next_sector) ==
    [x |-> x, y |-> y, point2 |-> point2, next_sector |-> next_sector]

MoveMap ==
    [sectors |-> <<[wallptr |-> 0, wallnum |-> 4], [wallptr |-> 4, wallnum |-> 4],
                   [wallptr |-> 8, wallnum |-> 4]>>,
     walls |-> [w \in 0 .. 11 |->
        <<MoveWall(0, 0, 1, 0 - 1), MoveWall(2, 0, 2, 1), MoveWall(2, 2, 3, 2),
          MoveWall(0, 2, 0, 0 - 1),
          MoveWall(2, 0, 5, 0 - 1), MoveWall(4, 0, 6, 0 - 1), MoveWall(4, 2, 7, 0 - 1),
          MoveWall(2, 2, 4, 0),
          MoveWall(0, 2, 9, 0), MoveWall(2, 2, 10, 0 - 1), MoveWall(2, 4, 11, 0 - 1),
          MoveWall(0, 4, 8, 0 - 1)>>[w + 1]]]

\* the controller's variables while no update_player call is modelled
MoveParked ==
    /\ player = [pos_x |-> 1, pos_y |-> 1, pos_z |-> 0, angle |-> 0, sector |-> 0]
    /\ world = MoveMap
    /\ step = <<>>
    /\ moveCalls = 0
    /\ moveFailed = "none"

(***************************************************************************)
(* controller.rs: intrsect_movement_with_wall on i32.  The operands are    *)
(* machine words; a subtraction or product outside the i32 range panics    *)
(* when the build checks overflow and wraps modulo 2^32 when it does not.  *)
(***************************************************************************)
I32_MAX == 2147483647
I32_MIN == (0 - I32_MAX) - 1

\* a - b lies in the i32 range
sub_fits(a, b) == IF b > 0 THEN a >= I32_MIN + b ELSE a <= I32_MAX + b

\* i32::wrapping_sub: a - b modulo 2^32
wrapping_sub(a, b) ==
    IF sub_fits(a, b) THEN a - b
    ELSE IF b > 0 THEN (a - I32_MIN) + ((I32_MAX - b) + 1)
    ELSE (a + I32_MIN) + (I32_MIN - b)

\* a * b lies in the i32 range
mul_fits(a, b) ==
    IF a = 0 \/ b = 0 THEN TRUE
    ELSE IF a = I32_MIN THEN b = 1
    ELSE IF b = I32_MIN THEN a = 1
    ELSE LET x == abs(a)
             y == abs(b)
         IN  \/ x <= I32_MAX \div y
             \/ /\ (a < 0) # (b < 0)
                /\ x = (I32_MAX \div y) + 1
                /\ I32_MAX % y = y - 1

\* i32::wrapping_mul: a * b modulo 2^32, computed on 16-bit halves (the low
\* halves on 8-bit quarters) so that no intermediate value leaves the range
wrapping_mul(a, b) ==
    LET al == a % 65536
        ah == (a - al) \div 65536
        bl == b % 65536
        bh == (b - bl) \div 65536
        a0 == al % 256
        a1 == al \div 256
        b0 == bl % 256
        b1 == bl \div 256
        t1 == a1 * b0 + a0 * b1
        low == a0 * b0 + 256 * (t1 % 256)
        lo16 == low % 65536
        carry == (low \div 65536) + (t1 \div 256) + a1 * b1
        hi16 == ((carry % 65536) + ((ah * bl) % 65536) + ((al * bh) % 65536)) % 65536
    IN  (IF hi16 >= 32768 THEN hi16 - 65536 ELSE hi16) * 65536 + lo16

\* intrsect_movement_with_wall as the machine computes it.  overflow: some
\* subtraction, product or abs left the i32 range; outcome: "panic" when it
\* did and the build checks overflow (wraps = FALSE), else "true" or "false",
\* the boolean returned
intrsect_movement_with_wall_i32(left, right, p, t, wraps) ==
    LET px == p[1]
        py == p[2]
        tx == t[1]
        ty == t[2]
        lx == left.x
        ly == left.y
        rx == right.x
        ry == right.y
        term(a, b, c, e, f, g, h, k) ==
            \* (a - b) * (c - e) - (f - g) * (h - k)
            LET s1 == wrapping_sub(a, b)
                s2 == wrapping_sub(c, e)
                s3 == wrapping_sub(f, g)
                s4 == wrapping_sub(h, k)
                m1 == wrapping_mul(s1, s2)
                m2 == wrapping_mul(s3, s4)
            IN  [value |-> wrapping_sub(m1, m2),
                 fits |-> /\ sub_fits(a, b) /\ sub_fits(c, e) /\ sub_fits(f, g) /\ sub_fits(h, k)
                          /\ mul_fits(s1, s2) /\ mul_fits(s3, s4) /\ sub_fits(m1, m2)]
        num0 == term(px, lx, ty, py, tx, px, py, ly)
        num1 == term(rx, lx, py, ly, px, lx, ry, ly)
        den == term(rx, lx, ty, py, tx, px, ry, ly)
        \* i32::abs overflows on i32::MIN
        abs_fits == num0.value # I32_MIN /\ num1.value # I32_MIN /\ den.value # I32_MIN
        wabs(v) == IF v = I32_MIN THEN I32_MIN ELSE abs(v)
        overflow == ~(num0.fits /\ num1.fits /\ den.fits /\ abs_fits)
    IN  [overflow |-> overflow,
         outcome |-> IF overflow /\ ~wraps THEN "panic"
                     ELSE IF /\ wabs(num0.value) <= wabs(den.value)
                             /\ wabs(num1.value) <= wabs(den.value)
                             /\ signum(num0.value) = signum(den.value)
                             /\ signum(num1.value) = signum(den.value)
                          THEN "true" ELSE "false"]

\* no call was made yet
NotCrossed == [overflow |-> FALSE, outcome |-> "unset"]

\* the crossing-test variables while no call is modelled
CrossParked ==
    /\ crossArgs = [left |-> [x |-> 0, y |-> 0], right |-> [x |-> 0, y |-> 0],
                    p |-> <<0, 0>>, t |-> <<0, 0>>]
    /\ crossed = NotCrossed

(***************************************************************************)
(* d2.rs: the sector traversal of the 2D overlay                           *)
(***************************************************************************)
\* MAX_SECTOR_RENDER_DEPTH, scaled down from 32
MAX_SECTOR_RENDER_DEPTH == 3

\* mutant: a sector is entered again although a depth is recorded for it
enters_visited_again(visited, sector, next_sector) ==
    LET child_depth == visited[sector] + 1
    IN  /\ next_sector # 0 - 1
        /\ child_depth < MAX_SECTOR_RENDER_DEPTH

\* the condition of render_sector's closure: the wall leads to a sector that
\* is entered now
enters(visited, sector, next_sector) ==
    LET child_depth == visited[sector] + 1
    IN  /\ next_sector # 0 - 1
        /\ next_sector \notin DOMAIN visited
        /\ child_depth < MAX_SECTOR_RENDER_DEPTH

\* a render_sector call that has just begun: <<>> when sectors.get fails
render_sector(m, sector) ==
    IF sectors_get(m, sector) = <<>> THEN <<>>
    ELSE <<[sector |-> sector, walls |-> sectors_get(m, sector)[1], i |-> 1]>>

\* the overlay's variables while no d2 render call is modelled
D2Parked ==
    /\ d2map = [player_sector |-> 0, sectors |-> <<>>, walls |-> <<>>]
    /\ visited_depth = <<>>
    /\ d2stack = <<>>
    /\ d2drawn = <<>>
    /\ d2pc = "parked"

(***************************************************************************)
(* controller.rs: InputController::update_opts.  An Input is the set of    *)
(* the flags held; update_opts reads six of them.                          *)
(***************************************************************************)
Flags == {"FORWARDS", "BACKWARDS", "RIGHT", "LEFT", "UP", "DOWN",
          "LOOK_RIGHT", "LOOK_LEFT", "CROUCH"}

\* the flags update_opts reads: those of movement and of look
MoveLookFlags == {"FORWARDS", "BACKWARDS", "RIGHT", "LEFT", "LOOK_RIGHT", "LOOK_LEFT"}

\* the literals of lines 79-81, 88-90 and 97-99, and of line 108
ROTATE_STEP == 2
LINEAR_STEP == 6
ROTATE_LIMIT == 8

\* lines 84-85, 93-94, 102-103: only the positive branch is kept
friction_only_positive(v) ==
    IF v > 0 THEN v - 1 ELSE v

\* lines 84-85, 93-94, 102-103: the two ifs in sequence
friction(v) ==
    LET once == IF v > 0 THEN v - 1 ELSE v
    IN  IF once < 0 THEN once + 1 ELSE once

\* one axis of update_opts before the clamp: plus held or minus held adds
\* step, minus held then takes two steps off; no flag held: friction
axis(v, input, plus, minus, unit) ==
    IF plus \in input \/ minus \in input
    THEN (v + unit) - (IF minus \in input THEN 2 * unit ELSE 0)
    ELSE friction(v)

\* v.max(-limit).min(limit), lines 106-108
max_min(v, limit) == Min(Max(v, 0 - limit), limit)

\* the controller after update_opts(input, _)
update_opts(c, input) ==
    [c EXCEPT !.opts =
        [rotate |-> max_min(axis(c.opts.rotate, input, "LOOK_RIGHT", "LOOK_LEFT", ROTATE_STEP),
                            ROTATE_LIMIT),
         forwards |-> max_min(axis(c.opts.forwards, input, "FORWARDS", "BACKWARDS", LINEAR_STEP),
                              c.max_speed),
         sideways |-> max_min(axis(c.opts.sideways, input, "RIGHT", "LEFT", LINEAR_STEP),
                              c.max_speed)]]

\* UpdateOpts::default()
NoOpts == [forwards |-> 0, sideways |-> 0, rotate |-> 0]

\* the controller's variables while no controller is modelled
CtlParked ==
    /\ controller = [max_speed |-> 0, opts |-> NoOpts]
    /\ idle = 0
    /\ idleFrom = NoOpts

NoCount == [x \in Columns |-> [y \in Rows |-> 0]]
NoSteps == [x \in Columns |-> 0]

\* the map value before a map is loaded
NoMap == [player_sector |-> 0,
          sectors |-> SectorTable,
          walls |-> [w \in WallIds |-> [point2 |-> Point2Table[w + 1],
                                        next_sector |-> 0 - 1, proj |-> <<>>]]]

\* the renderer and the observations while no render call is modelled
RenderParked ==
    /\ map = NoMap
    /\ pixel_coverage = new
    /\ queue = <<>>
    /\ frame = [y \in Rows |-> [x \in Columns |-> 0]]
    /\ pc = "parked"
    /\ node = <<0, None>>
    /\ sorted = <<>>
    /\ wi = 1
    /\ failed = "none"
    /\ lastStep = "none"
    /\ count = NoCount
    /\ painters = NoCount
    /\ colSteps = NoSteps
    /\ offcov = FALSE
    /\ calls = 1
    /\ earlier = <<>>

(***************************************************************************)
(* Specification of the interval algebra: the arguments are drawn from     *)
(* every interval with endpoints in MinCoord..MaxCoord, degenerate ones    *)
(* (right <= left) and None included.                                      *)
(***************************************************************************)
Intervals == {None} \cup {Some(l, r) : l \in MinCoord .. MaxCoord, r \in MinCoord .. MaxCoord}

Unset == <<"unset">>

CovIdle == [name |-> "idle", column |-> 0, interval |-> None]

AlgoInit ==
    /\ argU \in Intervals
    /\ argV \in Intervals
    /\ resUV = Unset
    /\ resVU = Unset
    /\ cov = new
    /\ covOp = CovIdle
    /\ covEmptied = {}
    /\ covOnlyNone = FALSE
    /\ covPrevOp = "idle"
    /\ covResetFull = FALSE
    /\ RenderParked
    /\ MoveParked
    /\ IterParked
    /\ CrossParked
    /\ D2Parked
    /\ CtlParked

\* one evaluation of intersect in each argument order (test macro assert_interval)
Intersect ==
    /\ resUV = Unset
    /\ resUV' = intersect(argU, argV)
    /\ resVU' = intersect(argV, argU)
    /\ UNCHANGED <<ctlVars, argU, argV, covVars, renderVars, moveVars, iterVars, crossVars, d2Vars>>

AlgoNext == Intersect

AlgoSpec == AlgoInit /\ [][AlgoNext]_vars

(***************************************************************************)
(* Specification of Coverage: new(), then any sequence of reset,           *)
(* intersect_column and set_full_coverage.                                 *)
(***************************************************************************)
\* the intervals handed to intersect_column
CovArgs == {None, Some(0, 2), Some(1, HEIGHT), Some(1, 1), Some(2, 1)}

CovInit ==
    /\ argU = None
    /\ argV = None
    /\ resUV = Unset
    /\ resVU = Unset
    /\ cov = new
    /\ covOp = [name |-> "new", column |-> 0, interval |-> None]
    /\ covEmptied = {}
    /\ covOnlyNone = TRUE
    /\ covPrevOp = "idle"
    /\ covResetFull = FALSE
    /\ RenderParked
    /\ MoveParked
    /\ IterParked
    /\ CrossParked
    /\ D2Parked
    /\ CtlParked

CovReset ==
    /\ cov' = reset(cov)
    /\ covOp' = [name |-> "reset", column |-> 0, interval |-> None]
    /\ covEmptied' = {}
    /\ covOnlyNone' = TRUE
    /\ covPrevOp' = covOp.name
    /\ covResetFull' = is_full(cov)
    /\ UNCHANGED <<ctlVars, algoVars, renderVars, moveVars, iterVars, crossVars, d2Vars>>

CovIntersectColumn ==
    \E column \in Columns, arg \in CovArgs :
        /\ cov' = intersect_column(cov, column, arg)
        /\ covOp' = [name |-> "intersect_column", column |-> column, interval |-> arg]
        /\ covOnlyNone' = (covOnlyNone /\ is_none(arg))
        /\ covEmptied' = IF covOnlyNone' THEN covEmptied \cup {column} ELSE {}
        /\ covPrevOp' = covOp.name
        /\ UNCHANGED covResetFull
        /\ UNCHANGED <<ctlVars, algoVars, renderVars, moveVars, iterVars, crossVars, d2Vars>>

CovSetFullCoverage ==
    /\ cov' = set_full_coverage(cov)
    /\ covOp' = [name |-> "set_full_coverage", column |-> 0, interval |-> None]
    /\ covEmptied' = {}
    /\ covOnlyNone' = FALSE
    /\ covPrevOp' = covOp.name
    /\ UNCHANGED covResetFull
    /\ UNCHANGED <<ctlVars, algoVars, renderVars, moveVars, iterVars, crossVars, d2Vars>>

CovNext == CovReset \/ CovIntersectColumn \/ CovSetFullCoverage

CovSpec == CovInit /\ [][CovNext]_vars

(***************************************************************************)
(* Specification of Renderer::render: one call on a fresh Renderer, for    *)
(* every map of the bounded family below.                                  *)
(***************************************************************************)
\* the queue lengths explored: a push onto a queue of MaxQueue nodes ends the exploration
MaxQueue == 3

\* projections a wall can have.  GOpen spans every column and beyond with its
\* top above and its bottom below the frame; GLeft is sloped, with portal
\* frames, over the columns left of the last; GRight covers the last column;
\* GBack is back-facing (right end left of the left end); GZero has d = 0.
GOpen == Geometry(0 - 1, WIDTH + 1, 0 - 1, 0 - 1, HEIGHT + 1, HEIGHT + 1,
                  0 - 1, 0 - 1, HEIGHT + 1, HEIGHT + 1, 1)
GLeft == Geometry(0, WIDTH - 1, 2, 0 - 1, HEIGHT - 1, HEIGHT + 1,
                  3, 0, HEIGHT - 2, HEIGHT, 0)
GRight == Geometry(WIDTH - 1, WIDTH + 1, 0, 0, HEIGHT, HEIGHT,
                   1, 1, HEIGHT - 1, HEIGHT - 1, 0)
GBack == Geometry(WIDTH, 0, 1, 1, HEIGHT - 1, HEIGHT - 1, 1, 1, HEIGHT - 1, HEIGHT - 1, 0)
GZero == Geometry(1, 1, 1, 1, HEIGHT - 1, HEIGHT - 1, 1, 1, HEIGHT - 1, HEIGHT - 1, 0)
\* GFar spans every column; the portal is as tall as the wall at the left end,
\* the far one, and two rows shorter on each side at the right end
GFar == Geometry(0, WIDTH, 0, 0, HEIGHT, HEIGHT, 0, 2, HEIGHT, HEIGHT - 2, 0)

Projections == {<<>>, <<GOpen>>, <<GLeft>>, <<GRight>>, <<GBack>>, <<GZero>>, <<GFar>>}

\* next_sector of a wall: -1, a sector of the map, or the index past the last sector
NextSectors == (0 - 1) .. NumSectors
\* player.sector: -1 or a sector of the map
PlayerSectors == (0 - 1) .. (NumSectors - 1)

Maps ==
    {[player_sector |-> ps,
      sectors |-> SectorTable,
      walls |-> [w \in WallIds |-> [point2 |-> Point2Table[w + 1],
                                    next_sector |-> ns[w],
                                    proj |-> pj[w]]]] :
        ps \in PlayerSectors, ns \in [WallIds -> NextSectors], pj \in [WallIds -> Projections]}

\* a valid Map: the player is in a sector and every portal leads to a sector
ValidMap(m) ==
    /\ m.player_sector \in SectorIds
    /\ \A w \in WallIds : m.walls[w].next_sector \in {0 - 1} \cup SectorIds

\* before the map is loaded: Renderer::new and Frame::new
RenderInit ==
    /\ argU = None
    /\ argV = None
    /\ resUV = Unset
    /\ resVU = Unset
    /\ cov = new
    /\ covOp = CovIdle
    /\ covEmptied = {}
    /\ covOnlyNone = FALSE
    /\ covPrevOp = "idle"
    /\ covResetFull = FALSE
    /\ map = NoMap
    /\ pixel_coverage = new
    /\ queue = <<>>
    /\ frame = [y \in Rows |-> [x \in Columns |-> 0]]
    /\ pc = "start"
    /\ node = <<0, None>>
    /\ sorted = <<>>
    /\ wi = 1
    /\ failed = "none"
    /\ lastStep = "none"
    /\ count = NoCount
    /\ painters = NoCount
    /\ colSteps = NoSteps
    /\ offcov = FALSE
    /\ calls = 1
    /\ earlier = <<>>
    /\ MoveParked
    /\ IterParked
    /\ CrossParked
    /\ D2Parked
    /\ CtlParked

\* Map::from_reader: the caller loads the map the renderer is given
LoadMap ==
    /\ pc = "start"
    /\ map' \in Maps
    /\ pc' = "idle"
    /\ lastStep' = "load"
    /\ UNCHANGED <<ctlVars, algoVars, covVars, moveVars, iterVars, crossVars, d2Vars, pixel_coverage, queue, frame, node, sorted, wi,
                   failed, count, painters, colSteps, offcov, callVars>>

\* mutant: the coverage left by the previous call is not reset
RenderBegin_no_reset ==
    /\ pc = "idle"
    /\ pixel_coverage' = pixel_coverage
    /\ queue' = <<<<map.player_sector, interval(0, WIDTH)>>>>
    /\ pc' = "loop"
    /\ lastStep' = "begin"
    /\ count' = NoCount
    /\ painters' = NoCount
    /\ colSteps' = NoSteps
    /\ offcov' = FALSE
    /\ failed' = "none"
    /\ UNCHANGED <<ctlVars, algoVars, covVars, moveVars, iterVars, crossVars, d2Vars, map, frame, node, sorted, wi, callVars>>

\* render, lines 90-94: reset, clear, push the player's sector
RenderBegin ==
    /\ pc = "idle"
    /\ pixel_coverage' = reset(pixel_coverage)
    /\ queue' = <<<<map.player_sector, interval(0, WIDTH)>>>>
    /\ pc' = "loop"
    /\ lastStep' = "begin"
    /\ count' = NoCount
    /\ painters' = NoCount
    /\ colSteps' = NoSteps
    /\ offcov' = FALSE
    /\ failed' = "none"
    /\ UNCHANGED <<ctlVars, algoVars, covVars, moveVars, iterVars, crossVars, d2Vars, map, frame, node, sorted, wi, callVars>>

\* render, line 95: the while test fails
RenderFull ==
    /\ pc = "loop"
    /\ is_full(pixel_coverage)
    /\ pc' = "done"
    /\ lastStep' = "full"
    /\ UNCHANGED <<ctlVars, algoVars, covVars, moveVars, iterVars, crossVars, d2Vars, map, pixel_coverage, queue, frame, node, sorted, wi,
                   failed, count, painters, colSteps, offcov, callVars>>

\* render, lines 101-107: pop_back returns None, break
RenderBreak ==
    /\ pc = "loop"
    /\ ~is_full(pixel_coverage)
    /\ queue = <<>>
    /\ pc' = "done"
    /\ lastStep' = "break"
    /\ UNCHANGED <<ctlVars, algoVars, covVars, moveVars, iterVars, crossVars, d2Vars, map, pixel_coverage, queue, frame, node, sorted, wi,
                   failed, count, painters, colSteps, offcov, callVars>>

\* mutant: the node is taken from the front of the queue (pop_front)
PopNode_pop_front ==
    LET popped == queue[1]
        got == sectors_get(map, popped[1])
    IN  /\ queue' = Tail(queue)
        /\ node' = popped
        /\ lastStep' = "pop"
        /\ wi' = 1
        /\ IF got = <<>>
           THEN /\ pc' = "panic"
                /\ failed' = "unwrap"
                /\ sorted' = <<>>
           ELSE /\ sorted' = sort_by_cached_key(filter_map_projected(map, got[1]))
                /\ pc' = IF sorted' = <<>> THEN "loop" ELSE "walls"
                /\ failed' = failed
        /\ UNCHANGED <<ctlVars, algoVars, covVars, moveVars, iterVars, crossVars, d2Vars, map, pixel_coverage, frame,
                       count, painters, colSteps, offcov, callVars>>

\* what follows a pop_back that returned a node: lines 108-118
PopNode ==
    LET popped == queue[Len(queue)]
        got == sectors_get(map, popped[1])
    IN  /\ queue' = SubSeq(queue, 1, Len(queue) - 1)
        /\ node' = popped
        /\ lastStep' = "pop"
        /\ wi' = 1
        /\ IF got = <<>>
           THEN /\ pc' = "panic"
                /\ failed' = "unwrap"
                /\ sorted' = <<>>
           ELSE /\ sorted' = sort_by_cached_key(filter_map_projected(map, got[1]))
                /\ pc' = IF sorted' = <<>> THEN "loop" ELSE "walls"
                /\ failed' = failed
        /\ UNCHANGED <<ctlVars, algoVars, covVars, moveVars, iterVars, crossVars, d2Vars, map, pixel_coverage, frame,
                       count, painters, colSteps, offcov, callVars>>

\* mutant: the loop runs while the queue has nodes, whatever the coverage
RenderPop_while_queued ==
    /\ pc = "loop"
    /\ queue # <<>>
    /\ PopNode

\* render, lines 95-118: the while test holds and pop_back returns a node
RenderPop ==
    /\ pc = "loop"
    /\ ~is_full(pixel_coverage)
    /\ queue # <<>>
    /\ PopNode

\* the painter's result for the wall at sorted[wi] and the node it pushes (None: no push)
for_body ==
    LET wall == map.walls[sorted[wi].wall]
        points == sorted[wi].points
        P0 == [cov |-> pixel_coverage, frame |-> frame, count |-> count,
               painters |-> painters, colSteps |-> colSteps, offcov |-> offcov,
               stepRows |-> {}, fail |-> "none"]
    IN  IF wall.next_sector = 0 - 1
        THEN [P |-> render_solid_wall(P0, points, node[2]), clip_interval |-> None]
        ELSE Strict(render_portal_wall(P0, points, node[2]), LAMBDA portal :
                [P |-> portal.P, clip_interval |-> intersect(portal.interval, node[2])])

\* render, lines 122-134: one iteration of the for loop over the sorted walls
RenderWall ==
    /\ pc = "walls"
    /\ \E R \in {for_body} :
         LET push == is_some(R.clip_interval)
         IN  /\ pixel_coverage' = R.P.cov
             /\ frame' = R.P.frame
             /\ count' = R.P.count
             /\ painters' = R.P.painters
             /\ colSteps' = R.P.colSteps
             /\ offcov' = R.P.offcov
             /\ lastStep' = "wall"
             /\ IF R.P.fail # "none"
                THEN /\ pc' = "panic"
                     /\ failed' = R.P.fail
                     /\ UNCHANGED <<queue, wi>>
                ELSE IF push /\ Len(queue) >= MaxQueue
                THEN /\ pc' = "cut"
                     /\ UNCHANGED <<queue, wi, failed>>
                ELSE /\ queue' = IF push
                                 THEN Append(queue, <<map.walls[sorted[wi].wall].next_sector,
                                                      R.clip_interval>>)
                                 ELSE queue
                     /\ pc' = IF wi = Len(sorted) THEN "loop" ELSE "walls"
                     /\ wi' = IF wi = Len(sorted) THEN 1 ELSE wi + 1
                     /\ failed' = failed
    /\ UNCHANGED <<ctlVars, algoVars, covVars, moveVars, iterVars, crossVars, d2Vars, map, node, sorted, callVars>>

\* the caller's frame loop: the first render call has returned, the frame is
\* cleared (Frame::clear) and render is called again on the same Renderer and Map
RenderAgain ==
    /\ pc = "done"
    /\ calls = 1
    /\ calls' = 2
    /\ earlier' = <<[frame |-> frame, queue |-> queue]>>
    /\ frame' = [y \in Rows |-> [x \in Columns |-> 0]]
    /\ pc' = "idle"
    /\ lastStep' = "again"
    /\ UNCHANGED <<ctlVars, algoVars, covVars, moveVars, iterVars, crossVars, d2Vars, map, pixel_coverage, queue, node, sorted, wi,
                   failed, count, painters, colSteps, offcov>>

Next ==
    \/ LoadMap \/ RenderBegin \/ RenderFull \/ RenderBreak \/ RenderPop \/ RenderWall
    \/ RenderAgain

Spec == RenderInit /\ [][Next]_vars

\* render runs on one thread that is never suspended for ever: a step that can
\* be taken is taken.  RenderWall is enabled exactly in the states with
\* pc = "walls" (the for loop body has no guard and always changes lastStep, wi
\* or pc), so its weak fairness is written unfolded.
FairSpec ==
    /\ Spec
    /\ WF_vars(LoadMap \/ RenderBegin \/ RenderFull \/ RenderBreak \/ RenderPop \/ RenderAgain)
    /\ ([]<>(pc # "walls") \/ []<><<RenderWall>>_vars)

(***************************************************************************)
(* Specification of update_player: a sequence of calls on the movement     *)
(* map, with any velocities up to MaxStep and a rotation of -1, 0 or 1.    *)
(***************************************************************************)
\* the largest |forwards| and |sideways| handed to update_player
MaxStep == 2
\* the number of update_player calls explored
MaxCalls == 2
\* positions explored: pos_x and pos_y stay in -1 .. MaxPos
MaxPos == 5

Velocities == (0 - MaxStep) .. MaxStep
Rotations == {0 - 1, 0, 1}
\* player.angle as read from the MAP file: any i16
StartAngles == {0, RANGE, 2^15 - 1}

MoveInit ==
    /\ argU = None
    /\ argV = None
    /\ resUV = Unset
    /\ resVU = Unset
    /\ cov = new
    /\ covOp = CovIdle
    /\ covEmptied = {}
    /\ covOnlyNone = FALSE
    /\ covPrevOp = "idle"
    /\ covResetFull = FALSE
    /\ RenderParked
    /\ \E a \in StartAngles :
          player = [pos_x |-> 1, pos_y |-> 1, pos_z |-> 0, angle |-> a, sector |-> 0]
    /\ world = MoveMap
    /\ step = <<>>
    /\ moveCalls = 0
    /\ moveFailed = "none"
    /\ IterParked
    /\ CrossParked
    /\ D2Parked
    /\ CtlParked

\* one call update_player(&mut map, &opts)
UpdatePlayer ==
    /\ moveCalls < MaxCalls
    /\ moveFailed = "none"
    /\ \E forwards \in Velocities, sideways \in Velocities, rotate \in Rotations,
          wraps \in BOOLEAN :
          LET opts == [forwards |-> forwards, sideways |-> sideways, rotate |-> rotate]
              R == update_player(player, world, opts, wraps)
          IN  /\ R.player.pos_x \in (0 - 1) .. MaxPos
              /\ R.player.pos_y \in (0 - 1) .. MaxPos
              /\ player' = R.player
              /\ moveFailed' = R.failed
              /\ step' = <<[target |-> R.target, still |-> forwards = 0 /\ sideways = 0,
                             from |-> player.sector,
                             d |-> <<R.target[1] - player.pos_x, R.target[2] - player.pos_y>>]>>
    /\ world' = world
    /\ moveCalls' = moveCalls + 1
    /\ UNCHANGED <<ctlVars, algoVars, covVars, renderVars, iterVars, crossVars, d2Vars>>

MoveNext == UpdatePlayer

MoveSpec == MoveInit /\ [][MoveNext]_vars

(***************************************************************************)
(* Specification of the wall loop iteration: a Sectors value as read from  *)
(* a MAP file, Sectors::get on one of its sectors, then next() until it    *)
(* returns None.  The file is not validated by Sectors::from_reader, so    *)
(* point2 of a wall is any wall index.                                     *)
(***************************************************************************)
\* the number of walls of the Sectors value
MaxWalls == 4

IterWallIds == 0 .. (MaxWalls - 1)

\* two sectors owning the contiguous runs [0, n) and [n, MaxWalls)
IterSectorTables ==
    {<<[wallptr |-> 0, wallnum |-> n], [wallptr |-> n, wallnum |-> MaxWalls - n]>> :
        n \in 1 .. (MaxWalls - 1)}

IterInit ==
    /\ argU = None
    /\ argV = None
    /\ resUV = Unset
    /\ resVU = Unset
    /\ cov = new
    /\ covOp = CovIdle
    /\ covEmptied = {}
    /\ covOnlyNone = FALSE
    /\ covPrevOp = "idle"
    /\ covResetFull = FALSE
    /\ RenderParked
    /\ MoveParked
    /\ \E t \in IterSectorTables, p \in [IterWallIds -> IterWallIds] :
          table = [sectors |-> t, walls |-> [w \in IterWallIds |-> [point2 |-> p[w]]]]
    /\ iter = <<>>
    /\ yielded = <<>>
    /\ ended = FALSE
    /\ CrossParked
    /\ D2Parked
    /\ CtlParked

\* Sectors::get(sector) on a sector of the table
SectorsGet ==
    /\ iter = <<>>
    /\ \E sector \in 0 .. (Len(table.sectors) - 1) :
          iter' = <<SectorWalls(table, sector)>>
    /\ UNCHANGED <<ctlVars, algoVars, covVars, renderVars, moveVars, crossVars, d2Vars, table, yielded, ended>>

\* one call of next() on the iterator; a chain that never returns to first is
\* followed for MaxWalls + 1 calls
IterNext ==
    /\ iter # <<>>
    /\ ~ended
    /\ iter[1].index <= MaxWalls
    /\ LET R == next(table, iter[1])
       IN  /\ iter' = <<R.it>>
           /\ yielded' = yielded \o R.item
           /\ ended' = (R.item = <<>>)
    /\ UNCHANGED <<ctlVars, algoVars, covVars, renderVars, moveVars, crossVars, d2Vars, table>>

IterSpecNext == SectorsGet \/ IterNext

IterSpec == IterInit /\ [][IterSpecNext]_vars

(***************************************************************************)
(* Specification of the crossing test on machine words: one call of        *)
(* intrsect_movement_with_wall with wall ends and a player position drawn  *)
(* from coordinates a Build map can hold, and a step of at most one unit.  *)
(***************************************************************************)
\* the largest coordinate drawn: walls and player lie in -Far .. Far
Far == 65536

FarCoords == {0 - Far, 0, 1, Far}
UnitSteps == {0 - 1, 0, 1}

CrossInit ==
    /\ argU = None
    /\ argV = None
    /\ resUV = Unset
    /\ resVU = Unset
    /\ cov = new
    /\ covOp = CovIdle
    /\ covEmptied = {}
    /\ covOnlyNone = FALSE
    /\ covPrevOp = "idle"
    /\ covResetFull = FALSE
    /\ RenderParked
    /\ MoveParked
    /\ IterParked
    /\ \E lx \in FarCoords, ly \in FarCoords, rx \in FarCoords, ry \in FarCoords,
          px \in FarCoords, py \in FarCoords, dx \in UnitSteps, dy \in UnitSteps :
          crossArgs = [left |-> [x |-> lx, y |-> ly], right |-> [x |-> rx, y |-> ry],
                       p |-> <<px, py>>, t |-> <<px + dx, py + dy>>]
    /\ crossed = NotCrossed
    /\ D2Parked
    /\ CtlParked

\* one call intrsect_movement_with_wall(left, right, p, t)
CrossTest ==
    /\ crossed = NotCrossed
    /\ \E wraps \in BOOLEAN :
          crossed' = intrsect_movement_with_wall_i32(crossArgs.left, crossArgs.right,
                                                     crossArgs.p, crossArgs.t, wraps)
    /\ UNCHANGED <<ctlVars, algoVars, covVars, renderVars, moveVars, iterVars, d2Vars, crossArgs>>

CrossNext == CrossTest

CrossSpec == CrossInit /\ [][CrossNext]_vars

(***************************************************************************)
(* Specification of d2::Renderer::render with Flags::SECTOR: one call on   *)
(* a map of MAX_SECTOR_RENDER_DEPTH + 1 sectors of two walls each.  The    *)
(* first wall of sector s is solid or leads to sector s + 1, the second is *)
(* solid or leads to sector s + 1 or s + 2 (modulo the number of sectors): *)
(* chains, shortcuts and cycles.                                           *)
(***************************************************************************)
D2Sectors == 0 .. MAX_SECTOR_RENDER_DEPTH
D2Walls == 0 .. (2 * MAX_SECTOR_RENDER_DEPTH + 1)

D2Maps ==
    {[player_sector |-> 0,
      sectors |-> [k \in 1 .. (MAX_SECTOR_RENDER_DEPTH + 1) |->
                      [wallptr |-> 2 * (k - 1), wallnum |-> 2]],
      walls |-> [w \in D2Walls |->
                    [point2 |-> IF w % 2 = 0 THEN w + 1 ELSE w - 1,
                     next_sector |-> IF ns[w] = 0 THEN 0 - 1
                                     ELSE ((w \div 2) + ns[w]) % (MAX_SECTOR_RENDER_DEPTH + 1)]]] :
        ns \in {f \in [D2Walls -> 0 .. 2] : \A w \in D2Walls : w % 2 = 0 => f[w] # 2}}

D2Init ==
    /\ argU = None
    /\ argV = None
    /\ resUV = Unset
    /\ resVU = Unset
    /\ cov = new
    /\ covOp = CovIdle
    /\ covEmptied = {}
    /\ covOnlyNone = FALSE
    /\ covPrevOp = "idle"
    /\ covResetFull = FALSE
    /\ RenderParked
    /\ MoveParked
    /\ IterParked
    /\ CrossParked
    /\ CtlParked
    /\ d2map \in D2Maps
    /\ visited_depth = <<>>
    /\ d2stack = <<>>
    /\ d2drawn = [w \in D2Walls |-> 0]
    /\ d2pc = "idle"

\* render, lines 69-74: clear visited_depth, record the player's sector at
\* depth 0 and call render_sector on it
D2Render ==
    /\ d2pc = "idle"
    /\ visited_depth' = (d2map.player_sector :> 0)
    /\ d2stack' = render_sector(d2map, d2map.player_sector)
    /\ d2pc' = IF d2stack' = <<>> THEN "panic" ELSE "run"
    /\ UNCHANGED <<ctlVars, algoVars, covVars, renderVars, moveVars, iterVars, crossVars, d2map, d2drawn>>

\* the stack after render_wall on the current wall of the innermost call
wall_rendered(stack) ==
    [stack EXCEPT ![Len(stack)].i = @ + 1]

\* render_sector, lines 83-93: the closure on the next wall of the innermost
\* call: either the wall's sector is entered (the wall is drawn when that call
\* returns) or the wall is drawn at once
D2Wall ==
    /\ d2pc = "run"
    /\ d2stack # <<>>
    /\ LET top == d2stack[Len(d2stack)]
       IN  /\ top.i <= Len(top.walls)
           /\ LET l == top.walls[top.i].left
                  next_sector == d2map.walls[l].next_sector
              IN  IF enters(visited_depth, top.sector, next_sector)
                  THEN /\ visited_depth' = (next_sector :> (visited_depth[top.sector] + 1))
                                              @@ visited_depth
                       /\ d2stack' = d2stack \o render_sector(d2map, next_sector)
                       /\ d2pc' = IF render_sector(d2map, next_sector) = <<>>
                                  THEN "panic" ELSE "run"
                       /\ d2drawn' = d2drawn
                  ELSE /\ d2drawn' = [d2drawn EXCEPT ![l] = Bump(@)]
                       /\ d2stack' = wall_rendered(d2stack)
                       /\ UNCHANGED <<visited_depth, d2pc>>
    /\ UNCHANGED <<ctlVars, algoVars, covVars, renderVars, moveVars, iterVars, crossVars, d2map>>

\* the innermost render_sector call has gone through its walls and returns:
\* its caller draws the wall that led to it (line 92), render itself is done
D2Return ==
    /\ d2pc = "run"
    /\ d2stack # <<>>
    /\ d2stack[Len(d2stack)].i > Len(d2stack[Len(d2stack)].walls)
    /\ LET rest == SubSeq(d2stack, 1, Len(d2stack) - 1)
       IN  IF rest = <<>>
           THEN /\ d2stack' = <<>>
                /\ d2pc' = "done"
                /\ d2drawn' = d2drawn
           ELSE /\ d2stack' = wall_rendered(rest)
                /\ d2drawn' = [d2drawn EXCEPT
                                  ![rest[Len(rest)].walls[rest[Len(rest)].i].left] = Bump(@)]
                /\ d2pc' = d2pc
    /\ UNCHANGED <<ctlVars, algoVars, covVars, renderVars, moveVars, iterVars, crossVars, d2map,
                   visited_depth>>

D2Next == D2Render \/ D2Wall \/ D2Return

D2Spec == D2Init /\ [][D2Next]_vars

\* render runs on one thread that is never suspended for ever
D2FairSpec == D2Spec /\ WF_vars(D2Next)

(***************************************************************************)
(* Specification of InputController::update_opts: a controller as new()    *)
(* builds it, with max_speed set once (the field is public; new() sets 32) *)
(* and then any sequence of update_opts calls with at most MaxHeld flags   *)
(* held.                                                                   *)
(***************************************************************************)
MaxSpeed == 6
MaxHeld == 2
IdleCap == Max(MaxSpeed, ROTATE_LIMIT) + 1

Speeds == {0 - 1, 0, 1, MaxSpeed}
Inputs == {input \in SUBSET Flags : Cardinality(input) <= MaxHeld}

CtlInit ==
    /\ argU = None
    /\ argV = None
    /\ resUV = Unset
    /\ resVU = Unset
    /\ cov = new
    /\ covOp = CovIdle
    /\ covEmptied = {}
    /\ covOnlyNone = FALSE
    /\ covPrevOp = "idle"
    /\ covResetFull = FALSE
    /\ RenderParked
    /\ MoveParked
    /\ IterParked
    /\ CrossParked
    /\ D2Parked
    /\ \E max_speed \in Speeds : controller = [max_speed |-> max_speed, opts |-> NoOpts]
    /\ idle = 0
    /\ idleFrom = NoOpts

\* one call self.update_opts(input, delta)
UpdateOpts ==
    \E input \in Inputs :
        /\ controller' = update_opts(controller, input)
        /\ idle' = IF input \cap MoveLookFlags = {} THEN Min(idle + 1, IdleCap) ELSE 0
        /\ idleFrom' = IF input \cap MoveLookFlags = {} THEN idleFrom ELSE controller'.opts
        /\ UNCHANGED <<algoVars, covVars, renderVars, moveVars, iterVars, crossVars, d2Vars>>

CtlNext == UpdateOpts

CtlSpec == CtlInit /\ [][CtlNext]_vars

(***************************************************************************)
(* Claims about Renderer::render                                           *)
(***************************************************************************)
\* the render call has returned or was aborted by a panic, or the exploration was cut
RenderEnded == pc \in {"done", "panic", "cut"}

\* C1: render terminates for every map: the loop that pops (sector, interval)
\* nodes stops after finitely many pops.
C1_RenderTerminates == <>RenderEnded

\* C2: on a valid Map no render call panics: no failed unwrap of a sector
\* lookup, no failed 'segments must be vertical' assertion, no division by
\* d = 0 in the column interpolation, no framebuffer or coverage index out of
\* 0 <= x < WIDTH, 0 <= y < HEIGHT.
C2_RenderNeverFails ==
    (pc # "start" /\ ValidMap(map)) => (failed = "none" /\ pc # "panic")

\* C2 witness: a render call on a valid map returned after it painted through a
\* portal into a second node, with a wall of d = 0 among the walls it walked
C2_Witness ==
    /\ ValidMap(map)
    /\ pc = "done"
    /\ lastStep = "full"
    /\ \E w \in WallIds : map.walls[w].proj = <<GZero>> /\ w \in {0, 1}
    /\ map.player_sector = 0
    /\ node[1] = 1
    /\ \E x \in Columns : colSteps[x] = 2

\* C3: within one render call no pixel (x, y) is written twice.
C3_PixelWrittenOnce ==
    \A x \in Columns, y \in Rows : count[x][y] <= 1

\* C4: every write hits a row inside its column's remaining coverage, every row
\* a column step wrote is outside the column's coverage from the end of that
\* step on, and so no pixel is written by two column steps (two walls, or two
\* visits of a sector).
C4_WallsNeverShareRow ==
    /\ ~offcov
    /\ \A x \in Columns, y \in Rows :
          /\ painters[x][y] <= 1
          /\ painters[x][y] >= 1 => y \notin RowsOf(get_column(pixel_coverage, x))

\* C4 witness: render returned after two column steps (two walls, or two visits
\* of a sector) wrote pixels of one column
C4_Witness ==
    \E x \in Columns :
        /\ colSteps[x] = 2
        /\ \E y \in Rows : painters[x][y] = 1
        /\ pc = "done"

\* C5: a node is popped only while the queue is non-empty and the coverage is
\* not full, and render returns only with an empty queue or a full coverage.
C5_PopOnlyWhileNeeded ==
    /\ [][lastStep' = "pop" => (~is_full(pixel_coverage) /\ queue # <<>>)]_vars
    /\ [](pc = "done" => (queue = <<>> \/ is_full(pixel_coverage)))

\* C5 witness: render returned on a full coverage while nodes were still queued
C5_Witness ==
    /\ pc = "done"
    /\ is_full(pixel_coverage)
    /\ queue # <<>>

(***************************************************************************)
(* Claims about the interval algebra and Coverage                          *)
(***************************************************************************)
\* the columns get_column reports as holding no row
EmptyColumns(c) == {x \in Columns : RowsOf(get_column(c, x)) = {}}

\* C6: after any sequence of Coverage operations the number of columns counted
\* as emptied, WIDTH - non_empty, is the number of columns whose remaining
\* interval contains no row.
C6_CounterCountsEmptyColumns ==
    WIDTH - cov.non_empty = Cardinality(EmptyColumns(cov))

\* C7: no operation other than reset gives a column a row it did not have:
\* the rows remaining in every column after the step are a subset of those
\* remaining before it.
C7_CoverageMonotone ==
    [][covOp'.name # "reset" =>
        \A x \in Columns : RowsOf(get_column(cov', x)) \subseteq RowsOf(get_column(cov, x))]_vars

\* C7 witness: an intersect_column on a fresh column left a proper, non-empty part of it
C7_Witness ==
    /\ covOp.name = "intersect_column"
    /\ covPrevOp \in {"new", "reset"}
    /\ RowsOf(get_column(cov, covOp.column)) # {}
    /\ RowsOf(get_column(cov, covOp.column)) # Rows

\* C8: from a fresh or reset Coverage, while only intersect_column(x, None) is
\* applied (any columns, any order, repeats allowed), is_full() is true exactly
\* when every column has been emptied.
C8_FullIffAllEmptied ==
    covOnlyNone => (is_full(cov) <=> covEmptied = Columns)

\* C8 witness: the last column has just been emptied and the Coverage is full
C8_Witness ==
    /\ covOnlyNone
    /\ covOp.name = "intersect_column"
    /\ covEmptied = Columns
    /\ is_full(cov)

\* C9: right after reset() the Coverage is not full and every column reads
\* [0, HEIGHT); an intersect_column(x, I) that follows takes effect: column x
\* holds the rows of I and the other columns still read [0, HEIGHT).
C9_ResetRestores ==
    /\ covOp.name = "reset" =>
          /\ ~is_full(cov)
          /\ \A x \in Columns : get_column(cov, x) = Some(0, HEIGHT)
    /\ (covOp.name = "intersect_column" /\ covPrevOp = "reset") =>
          /\ RowsOf(get_column(cov, covOp.column)) = RowsOf(covOp.interval) \cap Rows
          /\ \A x \in Columns \ {covOp.column} : get_column(cov, x) = Some(0, HEIGHT)

\* C9 witness: set_full_coverage, reset, then an intersect_column that emptied its column
C9_Witness ==
    /\ covOp.name = "intersect_column"
    /\ covPrevOp = "reset"
    /\ covResetFull
    /\ is_none(get_column(cov, covOp.column))
    /\ ~is_full(cov)

\* C10: intersect(A, B) and intersect(B, A) return the same value for all
\* intervals A and B, empty and degenerate ones included.
C10_IntersectCommutative ==
    resUV # Unset => resUV = resVU

\* an interval that holds at least one integer
proper(u) == is_some(u) /\ u[1] < u[2]

\* C11 as stated: intersect(A, A) = A for every interval A, as values.
C11_IntersectIdempotent ==
    (resUV # Unset /\ argU = argV) => resUV = argU

\* C11, amended: intersect(A, A) = A for None and for every A that holds an
\* integer; for a degenerate A (right <= left) the result is None, the same
\* empty set in its canonical form.
C11_IdempotentOnProper ==
    (resUV # Unset /\ argU = argV) =>
        IF is_none(argU) \/ proper(argU) THEN resUV = argU ELSE resUV = None

\* C11 witness: intersect was applied to two copies of an interval that holds
\* more than one integer and returned it
C11_Witness ==
    /\ resUV # Unset
    /\ argU = argV
    /\ proper(argU)
    /\ argU[2] - argU[1] >= 2
    /\ resUV = argU

\* C12: intersect(A, B) is [max(A.l, B.l), min(A.r, B.r)), and None whenever
\* that has right <= left: it never returns a Some that holds no integer.
C12_IntersectIsMaxMin ==
    resUV # Unset =>
        /\ resUV = IF is_none(argU) \/ is_none(argV) THEN None
                   ELSE IF Min(argU[2], argV[2]) <= Max(argU[1], argV[1]) THEN None
                   ELSE Some(Max(argU[1], argV[1]), Min(argU[2], argV[2]))
        /\ is_some(resUV) => proper(resUV)

\* C13: a second render of the same Map on the same Renderer, into a frame
\* equal to the one the first call started from, ends with the frame the first
\* call ended with, whatever coverage and queue the first call left behind.
C13_RenderDeterministic ==
    (calls = 2 /\ pc = "done") => frame = earlier[1].frame

\* C13 witness: the second call returned after the first one had returned on a
\* full coverage with nodes still queued, and the frame was painted
C13_Witness ==
    /\ calls = 2
    /\ pc = "done"
    /\ earlier[1].queue # <<>>
    /\ \E x \in Columns, y \in Rows : frame[y][x] # 0

\* C14: a wall whose next_sector is neither -1 nor a sector of the map is
\* painted as a solid wall: no node is pushed for it and the render call does
\* not fail on it.  Stated for maps whose player is in a sector.
C14_OutOfRangeIsSolid ==
    (pc # "start" /\ map.player_sector \in SectorIds) =>
        /\ \A i \in 1 .. Len(queue) : queue[i][1] \in SectorIds
        /\ failed # "unwrap"

\* C20: nodes are processed in LIFO order.  A step of the while loop that
\* takes a node takes the last node of the queue and leaves the nodes before
\* it in place, and a step of the for loop leaves the queue as it is or puts
\* one node behind all the queued ones: the node taken is always the one
\* pushed most recently among those still queued.
C20_LifoOrder ==
    [][/\ (pc = "loop" /\ queue' # queue) =>
            /\ queue # <<>>
            /\ node' = queue[Len(queue)]
            /\ queue' = SubSeq(queue, 1, Len(queue) - 1)
       /\ (pc = "walls" /\ queue' # queue) =>
            /\ Len(queue') = Len(queue) + 1
            /\ SubSeq(queue', 1, Len(queue)) = queue]_vars

\* a node was taken while a different node, queued before it, stays queued
C20_Witness ==
    /\ lastStep = "pop"
    /\ queue # <<>>
    /\ node # queue[Len(queue)]

\* the for loop has just processed the wall at sorted[wi] without a panic and
\* without the exploration being cut
wall_processed == pc = "walls" /\ vars' # vars /\ pc' \in {"loop", "walls"}

\* the columns painted for the wall at sorted[wi] under the node's interval:
\* [x0, x1) clipped to the frame and to the interval
painted_columns ==
    {x \in Columns : /\ sorted[wi].points.top_left[1] <= x
                     /\ x < sorted[wi].points.top_right[1]
                     /\ contains(node[2], x)}

column_item(x) ==
    lines_item(sorted[wi].points, clamp(sorted[wi].points.top_left[1], WIDTH), x)

\* the for loop has just processed, without a panic, a portal wall
portal_processed == wall_processed /\ map.walls[sorted[wi].wall].next_sector # 0 - 1

\* C22: after a portal wall paints column x the coverage of column x is its
\* previous coverage intersected with the portal hole
\* [max(top_y, portal_top_y), min(bot_y, portal_bot_y)) of that column.
C22_CoverageIsPortalHole ==
    [][portal_processed =>
          \A x \in painted_columns :
              RowsOf(get_column(pixel_coverage', x)) =
                  RowsOf(get_column(pixel_coverage, x))
                      \cap (column_item(x).sector[1][2] .. (column_item(x).sector[2][2] - 1))]_vars

\* C22 as the code has it: the hole loses the rows of the two border lines
\* painted at its top and at its bottom, so the coverage of column x becomes
\* its previous coverage intersected with
\* [max(top_y, portal_top_y) + 1, min(bot_y, portal_bot_y) - 1).
C22_CoverageIsHoleInsideBorders ==
    [][portal_processed =>
          \A x \in painted_columns :
              RowsOf(get_column(pixel_coverage', x)) =
                  RowsOf(get_column(pixel_coverage, x))
                      \cap ((column_item(x).sector[1][2] + 1) .. (column_item(x).sector[2][2] - 2))]_vars

\* a portal wall has left a column with a hole: some but not all of its rows
C22_Witness ==
    /\ lastStep = "wall"
    /\ \E x \in Columns :
          /\ proper(get_column(pixel_coverage, x))
          /\ RowsOf(get_column(pixel_coverage, x)) # Rows

\* C23: in every column yielded for a portal wall, if top_y < portal_top_y
\* the still-uncovered rows of [top_y, portal_top_y) are painted as top frame,
\* and if portal_bot_y < bot_y the still-uncovered rows of
\* [portal_bot_y, bot_y) are painted as bottom frame.
C23_FrameBandsPerColumn ==
    [][portal_processed =>
          \A x \in painted_columns :
              LET top_y == column_item(x).wall[1][2]
                  bot_y == column_item(x).wall[2][2]
                  portal_top_y == column_item(x).sector[1][2]
                  portal_bot_y == column_item(x).sector[2][2]
                  uncovered == RowsOf(get_column(pixel_coverage, x))
              IN  /\ \A y \in uncovered \cap (top_y .. (portal_top_y - 1)) :
                        /\ count'[x][y] >= 1
                        /\ frame'[y][x] \in {WALL_COLOR, BLACK_COLOR}
                  /\ \A y \in uncovered \cap (portal_bot_y .. (bot_y - 1)) :
                        /\ count'[x][y] >= 1
                        /\ frame'[y][x] \in {PORTAL_FRAME_COLOR, BLACK_COLOR}]_vars

\* C24: every row removed from a column's coverage during a render call was
\* written during that call: a row that column x's coverage no longer holds
\* has had pixel (x, y) written since the call began.
C24_RemovedRowsWereWritten ==
    pc \in {"loop", "walls", "done", "cut", "panic"} =>
        \A x \in Columns : \A y \in Rows :
            y \notin RowsOf(get_column(pixel_coverage, x)) => count[x][y] >= 1

(***************************************************************************)
(* Claims about update_player                                              *)
(***************************************************************************)
\* C15: after any sequence of update_player calls the stored angle lies in
\* [0, 2047] and the addition of rotate has not overflowed the i16.
C15_AngleStaysMasked ==
    moveCalls > 0 => (player.angle \in 0 .. RANGE /\ moveFailed # "overflow")

\* the side of the line through a and b on which c lies: 1, -1, or 0 when on it
side(a, b, c) ==
    signum((b[1] - a[1]) * (c[2] - a[2]) - (b[2] - a[2]) * (c[1] - a[1]))

\* c, a point of the line through a and b, lies between a and b
between(a, b, c) ==
    /\ Min(a[1], b[1]) <= c[1] /\ c[1] <= Max(a[1], b[1])
    /\ Min(a[2], b[2]) <= c[2] /\ c[2] <= Max(a[2], b[2])

\* the closed segments [p, t] and [l, r] have a point in common
segments_meet(p, t, l, r) ==
    \/ side(p, t, l) # side(p, t, r) /\ side(l, r, p) # side(l, r, t)
    \/ side(p, t, l) = 0 /\ between(p, t, l)
    \/ side(p, t, r) = 0 /\ between(p, t, r)
    \/ side(l, r, p) = 0 /\ between(l, r, p)
    \/ side(l, r, t) = 0 /\ between(l, r, t)

\* the portal walls of a sector, in wall-loop order, that the segment [p, t] meets
RECURSIVE portals_met(_, _, _, _)
portals_met(m, walls, p, t) ==
    IF walls = <<>> THEN <<>>
    ELSE LET left == m.walls[walls[1].left]
             right == m.walls[walls[1].right]
         IN  (IF left.next_sector # 0 - 1
                 /\ segments_meet(p, t, <<left.x, left.y>>, <<right.x, right.y>>)
              THEN <<left.next_sector>> ELSE <<>>)
             \o portals_met(m, Tail(walls), p, t)

\* the next_sector of the portal walls of the player's sector that the step of
\* the call just made meets: from the position before the call to its target
met_by_step ==
    portals_met(world, sector_walls(world, player.sector),
                <<player.pos_x, player.pos_y>>, step'[1].target)

\* an update_player call has just returned
call_returned == moveCalls' = moveCalls + 1 /\ moveFailed' = "none"

\* C16: when the movement segment meets portal walls of the current sector,
\* update_player sets player.sector to the next_sector of the first of them in
\* wall-loop order.
C16_FirstCrossingTaken ==
    [][(call_returned /\ met_by_step # <<>>) => player'.sector = met_by_step[1]]_vars

\* C17: when the movement segment, the zero-length one included, has no point
\* in common with any portal wall of the current sector, update_player leaves
\* player.sector unchanged.
C17_NoCrossingNoChange ==
    [][(call_returned /\ met_by_step = <<>>) => player'.sector = player.sector]_vars

\* C18: a returned update_player call has moved pos_x and pos_y to the target
\* (tx, ty) of the step whether or not the sector changed, has left pos_z and
\* the sectors and walls of the Map as they were, and has left the position
\* as it was when forwards = sideways = 0.
C18_DisplacementAlwaysAdded ==
    [][call_returned =>
          /\ <<player'.pos_x, player'.pos_y>> = step'[1].target
          /\ player'.pos_z = player.pos_z
          /\ world' = world
          /\ (step'[1].still =>
                 <<player'.pos_x, player'.pos_y>> = <<player.pos_x, player.pos_y>>)]_vars

\* the first call changed the sector and moved the player to the step's target
C18_Witness ==
    /\ moveCalls = 1
    /\ moveFailed = "none"
    /\ player.sector # 0
    /\ ~step[1].still
    /\ <<player.pos_x, player.pos_y>> = step[1].target
    /\ step[1].target # <<1, 1>>

(***************************************************************************)
(* Claims about the wall loop iteration                                    *)
(***************************************************************************)
\* the pairs the iterator has still to yield: next() run until it returns None
pairs_left(it) ==
    IF it.curr = <<>> THEN 0
    ELSE Len(SectorWalls_next(table, it.curr[1], it.first, MaxWalls + 1))

\* the point2 chain of the run of a sector returns to wallptr after exactly
\* wallnum steps
closed_loop(it) ==
    /\ Len(SectorWalls_next(table, it.first, it.first, MaxWalls + 1)) = it.len
    /\ \A w \in IterWallIds :
          table.walls[w].point2 = it.first =>
              w \in {SectorWalls_next(table, it.first, it.first, MaxWalls + 1)[k].id :
                        k \in 1 .. it.len}

\* the items yielded so far are the pairs (W_k, W_point2(k)) of the chain
\* that starts at wall_first
chain_so_far(it) ==
    /\ yielded # <<>> => yielded[1].left = it.first
    /\ \A k \in 1 .. Len(yielded) :
          /\ yielded[k].id = yielded[k].left
          /\ yielded[k].right = table.walls[yielded[k].left].point2
          /\ k > 1 => yielded[k].left = yielded[k - 1].right

\* C19: for every sector the iterator yields the pairs of the chain from
\* wall_first, exactly wall_count of them before next() returns None, and
\* between calls size_hint is the number of pairs still to be yielded.
C19_YieldsWallCount ==
    iter # <<>> =>
        /\ chain_so_far(iter[1])
        /\ Len(yielded) <= iter[1].len
        /\ (ended => Len(yielded) = iter[1].len)
        /\ \A wraps \in BOOLEAN : size_hint(iter[1], wraps) = pairs_left(iter[1])

\* the same on the sectors whose point2 chain is a closed loop of wall_count walls
C19_ClosedLoopYieldsWallCount ==
    (iter # <<>> /\ closed_loop(iter[1])) =>
        /\ chain_so_far(iter[1])
        /\ Len(yielded) <= iter[1].len
        /\ (ended => Len(yielded) = iter[1].len)
        /\ \A wraps \in BOOLEAN : size_hint(iter[1], wraps) = pairs_left(iter[1])

\* a closed loop of three walls iterated to its end
C19_Witness ==
    /\ iter # <<>>
    /\ closed_loop(iter[1])
    /\ iter[1].len = 3
    /\ ended
    /\ Len(yielded) = 3

(***************************************************************************)
(* Further claims about update_player                                      *)
(***************************************************************************)
\* the sector indices of a Sectors value
sector_ids(m) == 0 .. (Len(m.sectors) - 1)

\* C25: on a map whose walls lead to -1 or to a sector of the map, and with
\* the player starting in a sector of the map, after any sequence of
\* update_player calls player.sector is a sector of the map and the lookup
\* sectors.get(player.sector) has not failed.
C25_SectorStaysValid ==
    (\A w \in DOMAIN world.walls : world.walls[w].next_sector \in {0 - 1} \cup sector_ids(world)) =>
        /\ player.sector \in sector_ids(world)
        /\ moveFailed # "unwrap"

\* two calls were made and the player has left the sector it started in
C25_Witness ==
    /\ moveCalls = 2
    /\ moveFailed = "none"
    /\ player.sector \in sector_ids(world) \ {0}

\* C26: sector tracking is reversible.  On a map whose portal walls all have
\* a mirror wall leading back, when a call with displacement d took the
\* player from sector A to sector B, the call that follows it with
\* displacement -d sets player.sector back to A.
C26_StepBackReturns ==
    [][(/\ call_returned
        /\ step # <<>>
        /\ step[1].from # player.sector
        /\ step'[1].d = <<0 - step[1].d[1], 0 - step[1].d[2]>>) =>
            player'.sector = step[1].from]_vars

\* C27: the crossing test is exact on machine words: for the positions,
\* targets and wall ends handed to it no subtraction or product leaves the
\* i32 range, so what it returns is the test over the unbounded integers.
C27_CrossingTestExact ==
    crossed # NotCrossed =>
        /\ ~crossed.overflow
        /\ crossed.outcome = IF intrsect_movement_with_wall(crossArgs.left, crossArgs.right,
                                                            crossArgs.p, crossArgs.t)
                             THEN "true" ELSE "false"

(***************************************************************************)
(* Claims about the 2D overlay                                             *)
(***************************************************************************)
\* C28: the traversal of the 2D overlay terminates, on cyclic portal graphs
\* too: the render call ends, no wall is drawn twice in it, a sector is
\* entered only when no depth is recorded for it, and no sector is recorded
\* at depth MAX_SECTOR_RENDER_DEPTH or more.
C28_OverlayTerminates ==
    /\ <>(d2pc \in {"done", "panic"})
    /\ [](\A w \in DOMAIN d2drawn : d2drawn[w] <= 1)
    /\ [](\A sector \in DOMAIN visited_depth :
             visited_depth[sector] < MAX_SECTOR_RENDER_DEPTH)
    /\ [][Len(d2stack') > Len(d2stack) =>
             d2stack'[Len(d2stack')].sector \notin DOMAIN visited_depth]_vars

\* the call is over on a map with a cycle through the player's sector, and a
\* wall leading back to a sector already entered was drawn
C28_Witness ==
    /\ d2pc = "done"
    /\ Cardinality(DOMAIN visited_depth) >= 3
    /\ \E w \in DOMAIN d2drawn :
          /\ d2map.walls[w].next_sector = d2map.player_sector
          /\ (w \div 2) \in DOMAIN visited_depth
          /\ d2drawn[w] = 1

\* the sectors reachable from the sectors of from in at most hops portal hops
RECURSIVE within_hops(_, _, _)
within_hops(m, from, hops) ==
    IF hops = 0 THEN from
    ELSE within_hops(m, from \cup {m.walls[w].next_sector :
                                      w \in {v \in DOMAIN m.walls :
                                                /\ (v \div 2) \in from
                                                /\ m.walls[v].next_sector # 0 - 1}},
                     hops - 1)

\* C29: when the overlay's render call is over, every sector whose shortest
\* portal path from the player's sector has fewer than
\* MAX_SECTOR_RENDER_DEPTH hops was entered and both its walls were drawn,
\* whatever the order of the portals in the wall loops.
C29_OverlayDrawsNearSectors ==
    d2pc = "done" =>
        \A sector \in within_hops(d2map, {d2map.player_sector}, MAX_SECTOR_RENDER_DEPTH - 1) :
            /\ sector \in DOMAIN visited_depth
            /\ d2drawn[2 * sector] >= 1
            /\ d2drawn[2 * sector + 1] >= 1

(***************************************************************************)
(* Claims about the input controller                                       *)
(***************************************************************************)
\* the three velocities of the controller
velocities == {"forwards", "sideways", "rotate"}

\* the limit update_opts clamps a velocity to
limit_of(v) == IF v = "rotate" THEN ROTATE_LIMIT ELSE controller.max_speed

\* C30: friction of the input controller, for max_speed >= 0: an update with
\* no movement or look flag held moves each of forwards, sideways and rotate
\* by one unit toward 0 (a velocity at 0 stays there); after max_speed such
\* updates in a row forwards and sideways are 0, after 8 rotate is 0, and
\* they stay 0 while the run of such updates lasts.
C30_FrictionStopsPlayer ==
    /\ [][(controller.max_speed >= 0 /\ idle' > 0 /\ <<idle, controller>>' # <<idle, controller>>) =>
             \A v \in velocities :
                 /\ abs(controller'.opts[v]) = Max(abs(controller.opts[v]) - 1, 0)
                 /\ signum(controller'.opts[v]) \in {0, signum(controller.opts[v])}]_vars
    /\ [](controller.max_speed >= 0 =>
             \A v \in velocities : idle >= limit_of(v) => controller.opts[v] = 0)

\* a run of updates without input began at full speed backwards and turning
\* left while drifting to the right, and has just brought all three
\* velocities to 0
C30_Witness ==
    /\ controller.max_speed = MaxSpeed
    /\ idleFrom.forwards = 0 - MaxSpeed
    /\ idleFrom.rotate = 0 - ROTATE_LIMIT
    /\ idleFrom.sideways > 0
    /\ idle = Max(MaxSpeed, ROTATE_LIMIT)
    /\ controller.opts = NoOpts

====
